---- MODULE Spec2Model ----
(***************************************************************************)
(* The interactive conversation session of cao                             *)
(* (src/src/zhouatie_cao/cli/interactive.py, handle_interactive_session):  *)
(* the foreground loop that reads a line, routes it, appends to the        *)
(* conversation context, starts one background api_call_thread, polls its  *)
(* result container, appends the assistant turn and trims the context.     *)
(*                                                                         *)
(* A text is a sequence of tokens: a token is one whitespace character     *)
(* (" " or "\t"), the character "/", or a whole word.  Inputs never hold   *)
(* two adjacent words, so token equality is string equality.              *)
(***************************************************************************)
EXTENDS Integers, Sequences, FiniteSets, TLC

VARIABLES
    pc,                     \* position of the foreground loop
    conversation_context,   \* the message list
    current_role,           \* the active persona key
    user_input,             \* the line most recently returned by session.prompt
    path,                   \* which dispatch code path the current turn runs
    response_result,        \* the result container of the latest dispatch
    workers,                \* live api_call_thread threads, each at a position
    notice,                 \* what the foreground printed last
    turns,                  \* number of dispatches started so far
    only_plain,             \* history: every line read so far was a plain message
    remote,                 \* history: what the backend did in the latest call
    payload_messages,       \* history: the messages of the request being made
    call,                   \* the library call being exercised: arguments and result
    interrupt               \* history: the interrupt that was delivered, if any

vars == <<pc, conversation_context, current_role, user_input, path,
          response_result, workers, notice, turns, only_plain, remote,
          payload_messages, call, interrupt>>

----------------------------------------------------------------------------
(* Bounds of the model *)

\* dispatches per run of the session, with the full input alphabet
MaxTurns == 2
\* dispatches per run of the session, with the reduced input alphabet
LongTurns == 25

----------------------------------------------------------------------------
(* Program constants *)

\* `if len(conversation_context) > 20`
CEILING == 20
\* `conversation_context[-10:]`
RETAIN == 10

\* Python's None, distinct from every text
None == <<"<None>">>

\* the empty str
EmptyStr == <<>>

\* f"抱歉，我遇到了一些问题: {response_result['error']}"
ApologyPrefix == <<"apology: ">>

\* the keys of the roles dict
RoleKeys == {"default", "frontend", "backend", "secretary"}

roles ==
    [k \in RoleKeys |->
        [system_prompt |-> <<"system_prompt", k>>,
         greeting      |-> <<"greeting", k>>]]

Msg(role, content) == [role |-> role, content |-> content]

\* no library call is being exercised
NoCall == [fn |-> "none"]

\* {"ai_response": None, "error": None, "done": False}
FreshResult == [ai_response |-> None, error |-> None, done |-> FALSE]

----------------------------------------------------------------------------
(* str operations on token sequences *)

IsWS(t) == t \in {" ", "\t"}

RECURSIVE lstrip(_)
lstrip(s) ==
    IF s = <<>> THEN s
    ELSE IF IsWS(Head(s)) THEN lstrip(Tail(s)) ELSE s

RECURSIVE rstrip(_)
rstrip(s) ==
    IF s = <<>> THEN s
    ELSE IF IsWS(s[Len(s)]) THEN rstrip(SubSeq(s, 1, Len(s) - 1)) ELSE s

\* str.strip()
strip(s) == rstrip(lstrip(s))

LowerWord(w) ==
    CASE w = "EXIT"     -> "exit"
      [] w = "QUIT"     -> "quit"
      [] w = "FRONTEND" -> "frontend"
      [] w = "BACKEND"  -> "backend"
      [] w = "HI"       -> "hi"
      [] OTHER          -> w

\* str.lower()
lower(s) == [i \in DOMAIN s |-> LowerWord(s[i])]

\* str.split(" ", 1)
split1(s) ==
    LET sp == {i \in DOMAIN s : s[i] = " "}
    IN  IF sp = {} THEN <<s>>
        ELSE LET k == CHOOSE i \in sp : \A j \in sp : i <= j
             IN  <<SubSeq(s, 1, k - 1), SubSeq(s, k + 1, Len(s))>>

\* truth value of an Optional[str]
Truthy(x) == x # None /\ x # EmptyStr

----------------------------------------------------------------------------
(* Routing of one input line, in the order of the loop body *)

\* variant: the line is compared without lower()
IsExitCaseSensitive(u) ==
    strip(u) \in {<<"/", "exit">>, <<"/", "quit">>, <<"exit">>, <<"quit">>}

IsExit(u) ==
    lower(strip(u)) \in {<<"/", "exit">>, <<"/", "quit">>, <<"exit">>, <<"quit">>}

StartsWithSlash(u) == strip(u) # <<>> /\ Head(strip(u)) = "/"

\* parts = user_input.strip()[1:].split(" ", 1)
Parts(u) == split1(Tail(strip(u)))

\* variant: the command is compared without lower()
CmdIsRoleCaseSensitive(u) ==
    /\ Len(Parts(u)[1]) = 1
    /\ Parts(u)[1][1] \in RoleKeys

\* cmd = parts[0].lower(), as a role key when it names one
CmdIsRole(u) ==
    /\ Len(lower(Parts(u)[1])) = 1
    /\ lower(Parts(u)[1])[1] \in RoleKeys

Cmd(u) == lower(Parts(u)[1])[1]

\* variant: the whole stripped line is taken as the content
PersonaContentWholeLine(u) == strip(u)

\* content = parts[1].strip()
PersonaContent(u) == strip(Parts(u)[2])

\* variant: a command that names no role is sent as a message
RouteUnknownAsPlain(u) ==
    IF IsExit(u) THEN "exit"
    ELSE IF StartsWithSlash(u) /\ CmdIsRole(u) THEN
        IF Len(Parts(u)) > 1 THEN
            IF PersonaContent(u) = EmptyStr THEN "need_content" ELSE "persona_message"
        ELSE "switch"
    ELSE IF strip(u) = EmptyStr THEN "empty"
    ELSE "plain"

\* variant: the emptiness test is made on the line as typed
RouteEmptyUnstripped(u) ==
    IF IsExit(u) THEN "exit"
    ELSE IF StartsWithSlash(u) THEN
        IF CmdIsRole(u) /\ Len(Parts(u)) > 1 THEN
            IF PersonaContent(u) = EmptyStr THEN "need_content" ELSE "persona_message"
        ELSE IF CmdIsRole(u) THEN "switch"
        ELSE "unknown"
    ELSE IF u = EmptyStr THEN "empty"
    ELSE "plain"

Route(u) ==
    IF IsExit(u) THEN "exit"
    ELSE IF StartsWithSlash(u) THEN
        IF CmdIsRole(u) /\ Len(Parts(u)) > 1 THEN
            IF PersonaContent(u) = EmptyStr THEN "need_content" ELSE "persona_message"
        ELSE IF CmdIsRole(u) THEN "switch"
        ELSE "unknown"
    ELSE IF strip(u) = EmptyStr THEN "empty"
    ELSE "plain"

----------------------------------------------------------------------------
(* Conversation context operations *)

IsSystem(m) == m.role = "system"

SystemIndexes(ctx) == {i \in DOMAIN ctx : ctx[i].role = "system"}

\* variant: the new system prompt is appended as another system message
SwitchPersonaAppends(ctx, role) ==
    Append(ctx, Msg("system", roles[role].system_prompt))

\* variant: the switch starts the conversation over with the new persona
SwitchPersonaResets(ctx, role) ==
    << Msg("system", roles[role].system_prompt),
       Msg("assistant", roles[role].greeting) >>

\* for i, msg in enumerate(conversation_context): if system: replace; break
SwitchPersona(ctx, role) ==
    IF SystemIndexes(ctx) = {} THEN ctx
    ELSE LET k == CHOOSE i \in SystemIndexes(ctx) : \A j \in SystemIndexes(ctx) : i <= j
         IN  [ctx EXCEPT ![k] = Msg("system", roles[role].system_prompt)]

\* variant: the slice keeps one message more
RecentOneMore(ctx) ==
    IF Len(ctx) <= RETAIN + 1 THEN ctx ELSE SubSeq(ctx, Len(ctx) - RETAIN, Len(ctx))

\* conversation_context[-10:]
Recent(ctx) ==
    IF Len(ctx) <= RETAIN THEN ctx ELSE SubSeq(ctx, Len(ctx) - RETAIN + 1, Len(ctx))

\* variant: only the recent messages are kept
CompactKeepsRecentOnly(ctx) ==
    IF Len(ctx) > CEILING THEN Recent(ctx) ELSE ctx

\* variant: the ceiling test is off by one
CompactLateCeiling(ctx) ==
    IF Len(ctx) > CEILING + 1 THEN SelectSeq(ctx, IsSystem) \o Recent(ctx) ELSE ctx

\* variant: the trimming starts as soon as RETAIN messages are held
CompactEagerCeiling(ctx) ==
    IF Len(ctx) >= RETAIN THEN SelectSeq(ctx, IsSystem) \o Recent(ctx) ELSE ctx

\* the trimming at the end of a plain-text turn
Compact(ctx) ==
    IF Len(ctx) > CEILING THEN SelectSeq(ctx, IsSystem) \o Recent(ctx) ELSE ctx

----------------------------------------------------------------------------
(* What the environment supplies: typed lines and completion outcomes *)

\* the word the user types in the turn after t dispatches
Word(t) == ToString(t + 1)

\* lines session.prompt may return; mode "rich" covers every route with
\* whitespace and case variants, mode "long" one line per route
Inputs(mode, t) ==
    IF mode = "rich" THEN
        { <<Word(t)>>, <<" ", Word(t), " ">>,
          <<"exit">>, <<" ", "/", "QUIT", " ">>, <<"/", "exit">>,
          <<>>, <<" ", "\t">>,
          <<"/", "frontend">>, <<" ", "/", "BACKEND", " ">>,
          <<"/", "frontend", " ", Word(t)>>,
          <<" ", "/", "BACKEND", " ", " ", Word(t), " ", "more", " ">>,
          <<"/", "bogus">>, <<"/", "frontend", "\t", Word(t)>>,
          <<"/", " ", "frontend">> }
    ELSE
        { <<Word(t)>>, <<"quit">>, <<>>, <<"/", "frontend">>,
          <<"/", "frontend", " ", Word(t)>>, <<"/", "bogus">> }

\* variant: the pattern is greedy and runs to the last closing tag
filter_think_tags_greedy(content) ==
    LET closes == {i \in DOMAIN content : i > 1 /\ content[i] = "</think>"}
    IN  strip(IF content # <<>> /\ content[1] = "<think>" /\ closes # {}
              THEN LET k == CHOOSE i \in closes : \A j \in closes : i >= j
                   IN  SubSeq(content, k + 1, Len(content))
              ELSE content)

\* re.sub(r'^<think>.*?</think>\s*', '', content, flags=re.DOTALL).strip()
filter_think_tags(content) ==
    LET closes == {i \in DOMAIN content : i > 1 /\ content[i] = "</think>"}
    IN  strip(IF content # <<>> /\ content[1] = "<think>" /\ closes # {}
              THEN LET k == CHOOSE i \in closes : \A j \in closes : i <= j
                   IN  SubSeq(content, k + 1, Len(content))
              ELSE content)

\* what the configuration and the backend do in one call: a 200 response with
\* its content, another status, an exception in requests.post, a payload that
\* does not parse, or a model_config without the "model" key
Remotes(mode) ==
    IF mode = "rich" THEN
        { [kind |-> "ok",            text |-> <<"ok">>],
          [kind |-> "ok",            text |-> <<"<think>", "hm", "</think>", " ", "ok">>],
          [kind |-> "http_error",    text |-> <<"500">>],
          [kind |-> "network_error", text |-> <<"timeout">>],
          [kind |-> "malformed",     text |-> <<"'choices'">>],
          [kind |-> "config_error",  text |-> <<"'model'">>] }
    ELSE
        { [kind |-> "ok", text |-> <<"ok">>] }

\* variant: the system message is left out of the request
PayloadMessagesWithoutSystem(messages) ==
    SelectSeq(messages, LAMBDA m : ~IsSystem(m))

\* payload_messages = messages; payload = {..., "messages": payload_messages}
PayloadMessages(messages) == messages

\* the outcome of call_ai_api: the str it returns, or the exception it raises
call_ai_api(b) ==
    CASE b.kind = "config_error" ->
            [raises |-> TRUE, text |-> b.text]
      [] b.kind = "ok" ->
            [raises |-> FALSE, text |-> filter_think_tags(b.text)]
      [] b.kind = "http_error" ->
            [raises |-> FALSE, text |-> <<"API request failed (status: ">> \o b.text]
      [] OTHER ->
            [raises |-> FALSE, text |-> <<"error calling AI API: ">> \o b.text]

TurnCap(mode) == IF mode = "rich" THEN MaxTurns ELSE LongTurns

----------------------------------------------------------------------------
(* The background thread api_call_thread *)

\* variant: the except arm does not record the error
AfterCallDropsError(rr, o) ==
    IF o.raises THEN rr ELSE [rr EXCEPT !.ai_response = o.text]

\* try: response_result["ai_response"] = call_ai_api(...)
\* except Exception as e: response_result["error"] = str(e)
AfterCall(rr, o) ==
    IF o.raises THEN [rr EXCEPT !.error = o.text]
    ELSE [rr EXCEPT !.ai_response = o.text]

\* variant: done is set in an else arm, so not after an exception
AfterFinallyOnlyOnSuccess(rr) ==
    IF rr.error # None THEN rr ELSE [rr EXCEPT !.done = TRUE]

\* finally: response_result["done"] = True
AfterFinally(rr) == [rr EXCEPT !.done = TRUE]

RemoveAt(s, i) == SubSeq(s, 1, i - 1) \o SubSeq(s, i + 1, Len(s))

api_call_thread_call(mode) ==
    /\ pc # "TERMINATED"
    /\ \E w \in DOMAIN workers :
        /\ workers[w] = "calling"
        /\ \E b \in Remotes(mode) :
              /\ response_result' = AfterCall(response_result, call_ai_api(b))
              /\ remote' = b.kind
              /\ payload_messages' = PayloadMessages(conversation_context)
              /\ call' = call
        /\ workers' = [workers EXCEPT ![w] = "finally"]
    /\ UNCHANGED <<pc, conversation_context, current_role, user_input, path,
                   notice, turns, only_plain, interrupt>>

api_call_thread_finally ==
    /\ pc # "TERMINATED"
    /\ \E w \in DOMAIN workers :
        /\ workers[w] = "finally"
        /\ response_result' = AfterFinally(response_result)
        /\ workers' = RemoveAt(workers, w)
        /\ remote' = remote
        /\ payload_messages' = <<>>
        /\ call' = call
    /\ UNCHANGED <<pc, conversation_context, current_role, user_input, path,
                   notice, turns, only_plain, interrupt>>

----------------------------------------------------------------------------
(* The foreground loop *)

Init ==
    /\ pc = "AWAITING_INPUT"
    /\ conversation_context =
          << Msg("system", roles["default"].system_prompt),
             Msg("assistant", roles["default"].greeting) >>
    /\ current_role = "default"
    /\ user_input = <<>>
    /\ path = "none"
    /\ response_result = FreshResult
    /\ workers = <<>>
    /\ notice = "greeting"
    /\ turns = 0
    /\ only_plain = TRUE
    /\ remote = "none"
    /\ payload_messages = <<>>
    /\ call = NoCall
    /\ interrupt = "none"

\* variant: the loop returns to the prompt without polling
AfterStartNoWait == "AWAITING_INPUT"

\* where the foreground goes after thread.start()
AfterStart == "DISPATCHING"

\* append the user message, create the result container, start the thread
StartDispatch(ctx, content) ==
    /\ conversation_context' = Append(ctx, Msg("user", content))
    /\ response_result' = FreshResult
    /\ workers' = Append(workers, "calling")
    /\ pc' = AfterStart
    /\ turns' = turns + 1
    /\ remote' = "none"
    /\ payload_messages' = payload_messages
    /\ call' = call

\* `/exit`, `/quit`, `exit`, `quit`: print the notice and break
ExitCommand(mode) ==
    /\ pc = "AWAITING_INPUT"
    /\ \E u \in Inputs(mode, turns) :
        /\ Route(u) = "exit"
        /\ user_input' = u
    /\ pc' = "TERMINATED"
    /\ notice' = "exit"
    /\ only_plain' = FALSE
    /\ UNCHANGED <<conversation_context, current_role, path, response_result,
                   workers, turns, remote, payload_messages, call, interrupt>>

\* `/role content`: switch, then dispatch content in the same turn
PersonaMessage(mode) ==
    /\ pc = "AWAITING_INPUT"
    /\ turns < TurnCap(mode)
    /\ \E u \in Inputs(mode, turns) :
        /\ Route(u) \in {"need_content", "persona_message"}
        /\ user_input' = u
        /\ only_plain' = FALSE
        /\ interrupt' = interrupt
        /\ IF Route(u) = "need_content"
           THEN /\ notice' = "need_content"
                /\ UNCHANGED <<pc, conversation_context, current_role, path,
                               response_result, workers, turns, remote, payload_messages, call>>
           ELSE /\ current_role' = Cmd(u)
                /\ path' = "persona"
                /\ notice' = "none"
                /\ StartDispatch(SwitchPersona(conversation_context, Cmd(u)),
                                 PersonaContent(u))

\* `/role` alone: switch and render the notice
PersonaSwitch(mode) ==
    /\ pc = "AWAITING_INPUT"
    /\ \E u \in Inputs(mode, turns) :
        /\ Route(u) = "switch"
        /\ user_input' = u
        /\ current_role' = Cmd(u)
        /\ conversation_context' = SwitchPersona(conversation_context, Cmd(u))
    /\ notice' = "switch"
    /\ only_plain' = FALSE
    /\ UNCHANGED <<pc, path, response_result, workers, turns, remote, payload_messages, call, interrupt>>

\* any other input starting with "/"
UnknownCommand(mode) ==
    /\ pc = "AWAITING_INPUT"
    /\ \E u \in Inputs(mode, turns) :
        /\ Route(u) = "unknown"
        /\ user_input' = u
    /\ notice' = "unknown"
    /\ only_plain' = FALSE
    /\ UNCHANGED <<pc, conversation_context, current_role, path,
                   response_result, workers, turns, remote, payload_messages, call, interrupt>>

\* `if not user_input.strip(): continue`
EmptyInput(mode) ==
    /\ pc = "AWAITING_INPUT"
    /\ \E u \in Inputs(mode, turns) :
        /\ Route(u) = "empty"
        /\ user_input' = u
    /\ only_plain' = FALSE
    /\ UNCHANGED <<pc, conversation_context, current_role, path,
                   response_result, workers, notice, turns, remote, payload_messages, call, interrupt>>

\* plain text: dispatch user_input as typed
PlainMessage(mode) ==
    /\ pc = "AWAITING_INPUT"
    /\ turns < TurnCap(mode)
    /\ \E u \in Inputs(mode, turns) :
        /\ Route(u) = "plain"
        /\ user_input' = u
        /\ StartDispatch(conversation_context, u)
    /\ path' = "plain"
    /\ UNCHANGED <<current_role, notice, only_plain, interrupt>>

\* variant: the polling loop does not test the flag
PollDoneAlways == TRUE

\* `while not response_result["done"]` ends
PollDone == response_result.done

Poll ==
    /\ pc = "DISPATCHING"
    /\ PollDone
    /\ pc' = "RENDERING"
    /\ UNCHANGED <<conversation_context, current_role, user_input, path,
                   response_result, workers, notice, turns, only_plain,
                   remote, payload_messages, call, interrupt>>

\* variant: the foreground reads only the ai_response field
AiResponseIgnoresError(rr) == rr.ai_response

\* `if response_result["error"]: ... else: ...`
AiResponse(rr) ==
    IF Truthy(rr.error) THEN ApologyPrefix \o rr.error ELSE rr.ai_response

\* read the result, append the assistant message, start printing it
AppendAssistant ==
    /\ pc = "RENDERING"
    /\ conversation_context' =
          Append(conversation_context, Msg("assistant", AiResponse(response_result)))
    /\ pc' = "RENDERED"
    /\ notice' = "reply"
    /\ UNCHANGED <<current_role, user_input, path, response_result, workers,
                   turns, only_plain, remote, payload_messages, call, interrupt>>

\* the rest of the iteration: the persona path `continue`s after printing, the
\* plain path trims the context; printing None raises TypeError, which the
\* `except Exception` arm swallows before the trimming
FinishTurn ==
    /\ pc = "RENDERED"
    /\ LET ai_response == conversation_context[Len(conversation_context)].content
       IN  conversation_context' =
              IF path = "plain" /\ ai_response # None
              THEN Compact(conversation_context)
              ELSE conversation_context
    /\ pc' = "AWAITING_INPUT"
    /\ UNCHANGED <<current_role, user_input, path, response_result, workers,
                   notice, turns, only_plain, remote, payload_messages, call, interrupt>>

\* variant: the except arms return to the prompt
AfterInterruptResumes == "AWAITING_INPUT"

\* `break` in the except arms, sys.exit(0) in signal_handler
AfterInterrupt == "TERMINATED"

\* variant: the thread is not a daemon, so the exit waits for it
InterruptibleWhenIdle == pc # "TERMINATED" /\ workers = <<>>

\* the process is running; thread.daemon = True lets it exit at any time
Interruptible == pc # "TERMINATED"

\* Ctrl-C / Ctrl-D at the prompt (KeyboardInterrupt, EOFError -> break) and
\* SIGINT elsewhere (signal_handler -> sys.exit(0)); daemon threads die with
\* the process
Interrupt ==
    /\ Interruptible
    /\ interrupt' \in (IF pc = "AWAITING_INPUT" THEN {"ctrl_c", "ctrl_d"}
                                               ELSE {"ctrl_c"})
    /\ pc' = AfterInterrupt
    /\ notice' = "exit"
    /\ UNCHANGED <<conversation_context, current_role, user_input, path,
                   response_result, workers, turns, only_plain, remote, payload_messages, call>>

NextIn(mode) ==
    \/ ExitCommand(mode)
    \/ PersonaMessage(mode)
    \/ PersonaSwitch(mode)
    \/ UnknownCommand(mode)
    \/ EmptyInput(mode)
    \/ PlainMessage(mode)
    \/ Poll
    \/ AppendAssistant
    \/ FinishTurn
    \/ Interrupt
    \/ api_call_thread_call(mode)
    \/ api_call_thread_finally

Next == NextIn("rich")

Spec == Init /\ [][Next]_vars

LongNext == NextIn("long")

LongSpec == Init /\ [][LongNext]_vars

\* the loop with a fairly scheduled worker thread and a foreground that keeps
\* running; an interrupt may or may not arrive
FairSpec ==
    /\ Init /\ [][Next]_vars
    /\ WF_vars(api_call_thread_call("rich"))
    /\ WF_vars(api_call_thread_finally)
    /\ WF_vars(Poll)
    /\ WF_vars(AppendAssistant)
    /\ WF_vars(FinishTurn)

----------------------------------------------------------------------------
(* The trimming applied to every context the session can hold: one leading
   system message followed by alternating user and assistant messages, with
   or without the greeting the persona opens with *)

MaxCtxLen == 23

BodyMsg(i, greeted) ==
    IF (i % 2 = 1) = greeted
    THEN Msg("assistant", <<"a", ToString(i)>>)
    ELSE Msg("user", <<ToString(i)>>)

ContextOf(role, n, greeted) ==
    <<Msg("system", roles[role].system_prompt)>>
        \o [i \in 1..n |-> BodyMsg(i, greeted)]

CompactInit ==
    /\ pc = "compact_0"
    /\ \E role \in RoleKeys, n \in 0..(MaxCtxLen - 1), greeted \in BOOLEAN :
          /\ conversation_context = ContextOf(role, n, greeted)
          /\ current_role = role
    /\ user_input = <<>>
    /\ path = "plain"
    /\ response_result = FreshResult
    /\ workers = <<>>
    /\ notice = "reply"
    /\ turns = 0
    /\ only_plain = FALSE
    /\ remote = "none"
    /\ payload_messages = <<>>
    /\ call = NoCall
    /\ interrupt = "none"

CompactOnce ==
    /\ pc = "compact_0"
    /\ conversation_context' = Compact(conversation_context)
    /\ pc' = "compact_1"
    /\ UNCHANGED <<current_role, user_input, path, response_result, workers,
                   notice, turns, only_plain, remote, payload_messages, call, interrupt>>

CompactAgain ==
    /\ pc = "compact_1"
    /\ conversation_context' = Compact(conversation_context)
    /\ pc' = "compact_2"
    /\ UNCHANGED <<current_role, user_input, path, response_result, workers,
                   notice, turns, only_plain, remote, payload_messages, call, interrupt>>

CompactNext == CompactOnce \/ CompactAgain

CompactSpec == CompactInit /\ [][CompactNext]_vars

----------------------------------------------------------------------------
(* Library functions exercised on their own: a specification draws the
   arguments of one call, makes the call and records the result, while the
   conversation loop has not started *)

loop_vars ==
    <<conversation_context, current_role, user_input, path, response_result,
      workers, notice, turns, only_plain, remote, payload_messages, interrupt>>

LoopNotStarted ==
    /\ conversation_context = <<>>
    /\ current_role = "default"
    /\ user_input = <<>>
    /\ path = "none"
    /\ response_result = FreshResult
    /\ workers = <<>>
    /\ notice = "none"
    /\ turns = 0
    /\ only_plain = TRUE
    /\ remote = "none"
    /\ payload_messages = <<>>
    /\ interrupt = "none"

\* longest completion content drawn, in tokens
MaxContentLen == 4

ContentTokens == {"<think>", "</think>", " ", "hm", "ok"}

Contents == UNION {[1..n -> ContentTokens] : n \in 0..MaxContentLen}

\* "无法解析 Ollama API 响应"
OllamaDefault == <<"cannot parse Ollama API response">>

\* the parsing of a 200 response in call_ai_api: api is "ollama" when api_base
\* names localhost, shape tells which keys the JSON body holds
ParseCompletion(api, shape, content) ==
    IF api = "ollama" THEN
        IF shape = "message" THEN filter_think_tags(content)
        ELSE IF shape = "choices" THEN filter_think_tags(content)
        ELSE filter_think_tags(OllamaDefault)
    ELSE
        IF shape = "choices" THEN filter_think_tags(content)
        ELSE <<"error calling AI API: ", "'choices'">>

ThinkInit ==
    /\ pc = "call_0"
    /\ \E api \in {"openai", "ollama"},
          shape \in {"message", "choices", "neither"},
          content \in Contents :
          call = [fn |-> "parse_completion", api |-> api, shape |-> shape,
                  content |-> content, out |-> None, again |-> None]
    /\ LoopNotStarted

ThinkCall ==
    /\ pc = "call_0"
    /\ call.fn = "parse_completion"
    /\ call' = [call EXCEPT !.out = ParseCompletion(call.api, call.shape, call.content)]
    /\ pc' = "call_1"
    /\ UNCHANGED loop_vars

\* the text a completion path returned is passed through the filter again
ThinkAgain ==
    /\ pc = "call_1"
    /\ call.fn = "parse_completion"
    /\ call.api = "ollama" \/ call.shape = "choices"
    /\ call' = [call EXCEPT !.again = filter_think_tags(call.out)]
    /\ pc' = "call_2"
    /\ UNCHANGED loop_vars

ThinkNext == ThinkCall \/ ThinkAgain

ThinkSpec == ThinkInit /\ [][ThinkNext]_vars

----------------------------------------------------------------------------
(* utils/terminal.py: display width and line wrapping.  A text is a sequence
   of characters; "Z" stands for a code point above 127 *)

\* longest text drawn, in characters, and widest content_width drawn
MaxTextLen == 5

MaxWidth == 4

Chars == {"a", "b", " ", "\n", "Z"}

Texts == UNION {[1..n -> Chars] : n \in 0..MaxTextLen}

\* ord(char) > 127
IsWide(c) == c = "Z"

RECURSIVE get_string_display_width(_)
get_string_display_width(s) ==
    IF s = <<>> THEN 0
    ELSE (IF IsWide(Head(s)) THEN 2 ELSE 1) + get_string_display_width(Tail(s))

\* str.split(sep): the pieces between the separators, empty pieces included
RECURSIVE SplitFrom(_, _, _)
SplitFrom(s, sep, piece) ==
    IF s = <<>> THEN <<piece>>
    ELSE IF Head(s) = sep THEN <<piece>> \o SplitFrom(Tail(s), sep, <<>>)
    ELSE SplitFrom(Tail(s), sep, Append(piece, Head(s)))

split(s, sep) == SplitFrom(s, sep, <<>>)

\* variant: a character that does not fit is added to the line all the same
\* before the line is closed
RECURSIVE CharLoopLate(_, _, _, _)
CharLoopLate(rest, current_line, lines, content_width) ==
    IF rest = <<>> THEN
        IF current_line # <<>> THEN Append(lines, current_line) ELSE lines
    ELSE LET test_line == Append(current_line, Head(rest))
         IN  IF get_string_display_width(test_line) <= content_width
             THEN CharLoopLate(Tail(rest), test_line, lines, content_width)
             ELSE CharLoopLate(Tail(rest), <<>>, Append(lines, test_line), content_width)

\* `for char in line:` with the line being built and the lines closed so far
RECURSIVE CharLoop(_, _, _, _)
CharLoop(rest, current_line, lines, content_width) ==
    IF rest = <<>> THEN
        IF current_line # <<>> THEN Append(lines, current_line) ELSE lines
    ELSE LET test_line == Append(current_line, Head(rest))
         IN  IF get_string_display_width(test_line) <= content_width
             THEN CharLoop(Tail(rest), test_line, lines, content_width)
             ELSE CharLoop(Tail(rest), <<Head(rest)>>, Append(lines, current_line),
                           content_width)

\* variant: a word that does not fit is added to the line all the same
\* before the line is closed
RECURSIVE WordLoopLate(_, _, _, _)
WordLoopLate(words, current_line, lines, content_width) ==
    IF words = <<>> THEN
        IF current_line # <<>> THEN Append(lines, current_line) ELSE lines
    ELSE LET word == Head(words)
             test_line == current_line
                            \o (IF current_line # <<>> THEN <<" ">> ELSE <<>>)
                            \o word
         IN  IF get_string_display_width(test_line) <= content_width
             THEN WordLoopLate(Tail(words), test_line, lines, content_width)
             ELSE WordLoopLate(Tail(words), <<>>, Append(lines, test_line),
                               content_width)

\* `for word in words:`
RECURSIVE WordLoop(_, _, _, _)
WordLoop(words, current_line, lines, content_width) ==
    IF words = <<>> THEN
        IF current_line # <<>> THEN Append(lines, current_line) ELSE lines
    ELSE LET word == Head(words)
             test_line == current_line
                            \o (IF current_line # <<>> THEN <<" ">> ELSE <<>>)
                            \o word
         IN  IF get_string_display_width(test_line) <= content_width
             THEN WordLoop(Tail(words), test_line, lines, content_width)
             ELSE WordLoop(Tail(words), word, Append(lines, current_line),
                           content_width)

\* is_cjk_text = any(ord(c) > 127 for c in line)
IsCjkText(line) == \E i \in DOMAIN line : IsWide(line[i])

\* the lines one piece of text.split("\n") contributes
LinesOf(line, content_width) ==
    IF get_string_display_width(line) <= content_width THEN <<line>>
    ELSE IF IsCjkText(line) THEN CharLoop(line, <<>>, <<>>, content_width)
    ELSE WordLoop(split(line, " "), <<>>, <<>>, content_width)

RECURSIVE LinesOfAll(_, _)
LinesOfAll(segments, content_width) ==
    IF segments = <<>> THEN <<>>
    ELSE LinesOf(Head(segments), content_width)
            \o LinesOfAll(Tail(segments), content_width)

\* _process_text_to_lines(text, content_width)
process_text_to_lines(text, content_width) ==
    LinesOfAll(split(text, "\n"), content_width)

\* sep.join(lines)
RECURSIVE join(_, _)
join(lines, sep) ==
    IF lines = <<>> THEN <<>>
    ELSE IF Len(lines) = 1 THEN lines[1]
    ELSE lines[1] \o <<sep>> \o join(Tail(lines), sep)

WrapInit ==
    /\ pc = "call_0"
    /\ \E text \in Texts, content_width \in 1..MaxWidth :
          call = [fn |-> "process_text_to_lines", text |-> text,
                  content_width |-> content_width, lines |-> <<>>, again |-> <<>>]
    /\ LoopNotStarted

\* lines = _process_text_to_lines(text, content_width)
WrapCall ==
    /\ pc = "call_0"
    /\ call.fn = "process_text_to_lines"
    /\ call' = [call EXCEPT
                  !.lines = process_text_to_lines(call.text, call.content_width)]
    /\ pc' = "call_1"
    /\ UNCHANGED loop_vars

\* the lines, joined with newlines, are wrapped once more
WrapAgain ==
    /\ pc = "call_1"
    /\ call.fn = "process_text_to_lines"
    /\ call' = [call EXCEPT
                  !.again = process_text_to_lines(join(call.lines, "\n"),
                                                  call.content_width)]
    /\ pc' = "call_2"
    /\ UNCHANGED loop_vars

WrapNext == WrapCall \/ WrapAgain

WrapSpec == WrapInit /\ [][WrapNext]_vars

----------------------------------------------------------------------------
(* The renderers: print_with_borders of utils/terminal.py in its two modes,
   and print_with_borders of main.py *)

\* widest terminal drawn, in columns
MaxTerminalWidth == 110

\* two columns of border on each side
BORDER == 4

\* the cap in main.py
MAX_CONTENT_WIDTH == 100

Min(a, b) == IF a <= b THEN a ELSE b

Renderers ==
    { [module |-> "utils.terminal", mode |-> "normal"],
      [module |-> "utils.terminal", mode |-> "chat"],
      [module |-> "main",           mode |-> "normal"] }

\* the width handed to the wrapper
ContentWidth(renderer, terminal_width) ==
    IF renderer.module = "main"
    THEN Min(terminal_width - BORDER, MAX_CONTENT_WIDTH)
    ELSE IF renderer.mode = "normal" THEN terminal_width - BORDER
    ELSE terminal_width

\* a paragraph of wide characters, wider than any terminal drawn
Paragraph == [i \in 1..((MaxTerminalWidth \div 2) + 1) |-> "Z"]

RenderInit ==
    /\ pc = "call_0"
    /\ \E renderer \in Renderers, terminal_width \in 1..MaxTerminalWidth :
          call = [fn |-> "print_with_borders", renderer |-> renderer,
                  terminal_width |-> terminal_width, text |-> Paragraph,
                  content_width |-> 0, lines |-> <<>>]
    /\ LoopNotStarted

\* terminal_width, _ = get_terminal_size(); content_width = ...; lines = ...
RenderCall ==
    /\ pc = "call_0"
    /\ call.fn = "print_with_borders"
    /\ LET content_width == ContentWidth(call.renderer, call.terminal_width)
       IN  call' = [call EXCEPT
                      !.content_width = content_width,
                      !.lines = process_text_to_lines(call.text, content_width)]
    /\ pc' = "call_1"
    /\ UNCHANGED loop_vars

RenderNext == RenderCall

RenderSpec == RenderInit /\ [][RenderNext]_vars

----------------------------------------------------------------------------
(* get_terminal_size: the window size the system reports for fd 0, or the
   default when the query raises *)

\* largest column and row count the system is drawn to report
MaxDim == 8

DEFAULT_COLUMNS == 80

DEFAULT_ROWS == 24

Platforms == {"windows", "unix"}

\* what os.get_terminal_size() / ioctl(0, TIOCGWINSZ) does: it raises, or it
\* fills ws_row and ws_col, which are 0 for a window whose size was never set
Queries ==
    { [raises |-> TRUE, ws_col |-> 0, ws_row |-> 0] }
    \cup { [raises |-> FALSE, ws_col |-> c, ws_row |-> r] :
              c \in 0..MaxDim, r \in 0..MaxDim }

get_terminal_size(platform, query) ==
    IF platform = "windows" THEN
        IF query.raises THEN <<DEFAULT_COLUMNS, DEFAULT_ROWS>>
        ELSE <<query.ws_col, query.ws_row>>
    ELSE
        IF query.raises THEN <<DEFAULT_COLUMNS, DEFAULT_ROWS>>
        ELSE LET h == query.ws_row
                 w == query.ws_col
             IN  <<w, h>>

SizeInit ==
    /\ pc = "call_0"
    /\ \E platform \in Platforms, query \in Queries :
          call = [fn |-> "get_terminal_size", platform |-> platform,
                  query |-> query, out |-> <<>>]
    /\ LoopNotStarted

SizeCall ==
    /\ pc = "call_0"
    /\ call.fn = "get_terminal_size"
    /\ call' = [call EXCEPT !.out = get_terminal_size(call.platform, call.query)]
    /\ pc' = "call_1"
    /\ UNCHANGED loop_vars

SizeNext == SizeCall

SizeSpec == SizeInit /\ [][SizeNext]_vars

----------------------------------------------------------------------------
(* call_ai_api with its configuration: provider, API key, request *)

\* api_base values: the labels of the host name, the path, and whether the
\* URL names localhost or 127.0.0.1
ApiBases ==
    { [domain |-> <<"api", "deepseek", "com">>, path |-> <<"v1">>, local |-> FALSE],
      [domain |-> <<"api", "openai", "com">>,   path |-> <<"v1">>, local |-> FALSE],
      [domain |-> <<"dashscope", "aliyuncs", "com">>,
       path |-> <<"compatible-mode", "v1">>, local |-> FALSE],
      [domain |-> <<"localhost">>,              path |-> <<"v1">>, local |-> TRUE] }

\* model_config: "provider" ("" when absent), "api_base", whether "model" and
\* "api_key" are present
ModelConfigs ==
    [provider : {"", "deepseek", "openai", "ollama"},
     api_base : ApiBases,
     has_model : BOOLEAN,
     has_api_key : BOOLEAN]

\* os.environ: the providers whose <PROVIDER>_API_KEY variable is set
Environs == SUBSET {"deepseek", "openai", "aliyuncs", "dashscope"}

EnvKey(provider) == <<"env key of", provider>>

ConfigKey == <<"api_key of model_config">>

\* the provider taken from api_base when model_config names none
InferProvider(api_base) ==
    IF api_base.local THEN "ollama"
    ELSE LET domain_parts == api_base.domain
             n == Len(domain_parts)
             by_domain ==
                 IF n >= 2 THEN
                     IF domain_parts[n - 1] \notin {"com", "org", "net", "io"}
                     THEN domain_parts[n - 1]
                     ELSE IF n > 2 THEN domain_parts[n - 2] ELSE ""
                 ELSE ""
             by_path ==
                 IF by_domain = "" /\ api_base.path # <<>>
                       /\ api_base.path[1] \notin {"v1", "v2", "v3", "api"}
                 THEN api_base.path[1]
                 ELSE by_domain
         IN  IF by_path = "" THEN "domain with underscores" ELSE by_path

ApiProvider(model_config) ==
    IF model_config.provider # "" THEN model_config.provider
    ELSE InferProvider(model_config.api_base)

\* the provider whose key an OpenAI-compatible endpoint accepts ("" if none)
CompatProvider(api_base) ==
    IF \E i \in DOMAIN api_base.path : api_base.path[i] = "compatible-mode" THEN
        IF \E i \in DOMAIN api_base.domain : api_base.domain[i] = "dashscope"
        THEN "dashscope"
        ELSE IF \E i \in DOMAIN api_base.domain : api_base.domain[i] = "baichuan"
        THEN "baichuan"
        ELSE ""
    ELSE ""

\* api_key: None for a local model, else the environment variable of the
\* provider, else the "api_key" of model_config, else the environment
\* variable of the compatible-mode provider
ApiKey(model_config, environ) ==
    LET api_provider == ApiProvider(model_config)
    IN  IF api_provider = "ollama" \/ model_config.api_base.local THEN None
        ELSE IF api_provider \in environ THEN EnvKey(api_provider)
        ELSE IF model_config.has_api_key THEN ConfigKey
        ELSE IF CompatProvider(model_config.api_base) \in environ
        THEN EnvKey(CompatProvider(model_config.api_base))
        ELSE None

NeedsKey(model_config) ==
    ~(ApiProvider(model_config) = "ollama" \/ model_config.api_base.local)

\* one call: what it returns or raises, how many requests it posted and the
\* Authorization header of the request
CallWithConfig(model_config, environ, b) ==
    LET api_key == ApiKey(model_config, environ)
        authorization == IF api_key # None THEN <<"Bearer ">> \o api_key ELSE None
    IN  IF NeedsKey(model_config) /\ api_key = None THEN
            [raises |-> FALSE, text |-> <<"error: API key not set">>,
             posts |-> 0, authorization |-> None]
        ELSE IF ~model_config.has_model THEN
            [raises |-> TRUE, text |-> <<"'model'">>,
             posts |-> 0, authorization |-> None]
        ELSE
            [raises |-> call_ai_api(b).raises, text |-> call_ai_api(b).text,
             posts |-> 1, authorization |-> authorization]

ClientInit ==
    /\ pc = "call_0"
    /\ \E model_config \in ModelConfigs, environ \in Environs,
          b \in {r \in Remotes("rich") : r.kind # "config_error"} :
          call = [fn |-> "call_ai_api", model_config |-> model_config,
                  environ |-> environ, backend |-> b,
                  out |-> [raises |-> FALSE, text |-> None, posts |-> 0,
                           authorization |-> None]]
    /\ LoopNotStarted

ClientCall ==
    /\ pc = "call_0"
    /\ call.fn = "call_ai_api"
    /\ call' = [call EXCEPT
                  !.out = CallWithConfig(call.model_config, call.environ,
                                         call.backend)]
    /\ pc' = "call_1"
    /\ UNCHANGED loop_vars

ClientNext == ClientCall

ClientSpec == ClientInit /\ [][ClientNext]_vars

----------------------------------------------------------------------------
(* parse_args of the single-file program: the command line *)

MaxArgs == 3

SUPPORTED_MODELS == {"deepseek", "openai"}

DEFAULT_MODEL == "deepseek"

\* words of a command line: positional words, the options the parser
\* declares, and option-like words it does not declare
ArgWords == {"ls", "x", "-l", "-m", "openai", "gpt4", "-d", "--last"}

Argvs == UNION { [1..n -> ArgWords] : n \in 0..MaxArgs }

IsOptionLike(word) == word \in {"-l", "-m", "-d", "--last"}

\* the parser stops with exit status 2
ParserError == [exits |-> TRUE, ns |-> [command |-> <<>>]]

\* argparse over argv from position i on; ns is the namespace so far and
\* closed says that an option followed the positional words already taken
RECURSIVE ParseFrom(_, _, _, _)
ParseFrom(argv, i, ns, closed) ==
    IF i > Len(argv) THEN [exits |-> FALSE, ns |-> ns]
    ELSE IF argv[i] = "-d" THEN
        ParseFrom(argv, i + 1, [ns EXCEPT !.debug = TRUE], ns.command # <<>>)
    ELSE IF argv[i] = "-m" THEN
        IF i + 1 > Len(argv) \/ IsOptionLike(argv[i + 1]) THEN ParserError
        ELSE IF argv[i + 1] \notin SUPPORTED_MODELS THEN ParserError
        ELSE ParseFrom(argv, i + 2, [ns EXCEPT !.model = argv[i + 1]],
                       ns.command # <<>>)
    ELSE IF IsOptionLike(argv[i]) THEN ParserError
    ELSE IF closed THEN ParserError
    ELSE ParseFrom(argv, i + 1,
                   [ns EXCEPT !.command = Append(ns.command, argv[i])], FALSE)

\* the namespace has the attributes of the four declared arguments
parse_args(argv) ==
    ParseFrom(argv, 1,
              [command |-> <<>>, model |-> DEFAULT_MODEL, number |-> None,
               debug |-> FALSE],
              FALSE)

ParseInit ==
    /\ pc = "call_0"
    /\ \E argv \in Argvs :
          call = [fn |-> "parse_args", argv |-> argv, out |-> ParserError]
    /\ LoopNotStarted

ParseCall ==
    /\ pc = "call_0"
    /\ call.fn = "parse_args"
    /\ call' = [call EXCEPT !.out = parse_args(call.argv)]
    /\ pc' = "call_1"
    /\ UNCHANGED loop_vars

ParseNext == ParseCall

ParseSpec == ParseInit /\ [][ParseNext]_vars

----------------------------------------------------------------------------
(* The model configuration: the file, and DEFAULT_CONFIG of the process *)

\* names of models: the three of DEFAULT_CONFIG and one the user adds
ModelNames == {"deepseek", "openai", "ollama", "mine"}

\* DEFAULT_CONFIG as the module defines it; a configuration is the set of
\* the keys of "models" and "default_model"
DEFAULT_CONFIG ==
    [models |-> {"deepseek", "openai", "ollama"}, default_model |-> "deepseek"]

\* config.json does not exist
NoFile == [models |-> {}, default_model |-> "<no file>"]

\* save_config: what the file holds afterwards; the write can fail
save_config(config, file, written) == IF written THEN config ELSE file

\* load_config: the configuration it returns, whether that is DEFAULT_CONFIG
\* itself, and DEFAULT_CONFIG and the file afterwards.  DEFAULT_CONFIG.copy()
\* is shallow, so update() writes the models of the file into the models of
\* DEFAULT_CONFIG and every returned configuration shares that dictionary.
load_config(file, defaults, written) ==
    IF file # NoFile THEN
        LET models == defaults.models \cup file.models
        IN  [config |-> [models |-> models,
                         default_model |->
                             IF file.default_model \in models
                             THEN file.default_model
                             ELSE defaults.default_model],
             is_defaults |-> FALSE,
             defaults |-> [defaults EXCEPT !.models = models],
             file |-> file]
    ELSE
        [config |-> defaults,
         is_defaults |-> TRUE,
         defaults |-> defaults,
         file |-> save_config(defaults, file, written)]

\* variant: the default model is not protected
IsDefaultModelNever(name, config) == FALSE

\* `if name == config["default_model"]`
IsDefaultModel(name, config) == name = config.default_model

\* `if name not in config["models"]` of set_default_model, negated
IsConfigured(name, config) == name \in config.models

\* what a process sees: get_supported_models() and get_default_model()
get_supported_models(file, defaults) == load_config(file, defaults, TRUE).config.models

get_default_model(file, defaults) ==
    load_config(file, defaults, TRUE).config.default_model

ConfigInit ==
    /\ pc = "call_0"
    /\ call = [fn |-> "config", file |-> NoFile, defaults |-> DEFAULT_CONFIG,
               removed |-> {}, op |-> "start", name |-> "", result |-> TRUE]
    /\ LoopNotStarted

\* add_model(name, ...)
AddModel ==
    /\ call.fn = "config"
    /\ \E name \in ModelNames, w1 \in BOOLEAN, w2 \in BOOLEAN :
          LET l == load_config(call.file, call.defaults, w1)
              config == [l.config EXCEPT !.models = @ \cup {name}]
          IN  call' = [call EXCEPT
                          !.defaults = [l.defaults EXCEPT !.models = @ \cup {name}],
                          !.file = save_config(config, l.file, w2),
                          !.removed = @ \ {name},
                          !.op = "add_model", !.name = name, !.result = w2]
    /\ UNCHANGED <<pc>>
    /\ UNCHANGED loop_vars

\* remove_model(name)
RemoveModel ==
    /\ call.fn = "config"
    /\ \E name \in ModelNames, w1 \in BOOLEAN, w2 \in BOOLEAN :
          LET l == load_config(call.file, call.defaults, w1)
              config == [l.config EXCEPT !.models = @ \ {name}]
          IN  IF name \notin l.config.models \/ IsDefaultModel(name, l.config)
              THEN call' = [call EXCEPT
                              !.defaults = l.defaults, !.file = l.file,
                              !.op = "remove_model", !.name = name,
                              !.result = FALSE]
              ELSE call' = [call EXCEPT
                              !.defaults = [l.defaults EXCEPT !.models = @ \ {name}],
                              !.file = save_config(config, l.file, w2),
                              !.removed = IF w2 THEN @ \cup {name} ELSE @,
                              !.op = "remove_model", !.name = name,
                              !.result = w2]
    /\ UNCHANGED <<pc>>
    /\ UNCHANGED loop_vars

\* set_default_model(name)
SetDefaultModel ==
    /\ call.fn = "config"
    /\ \E name \in ModelNames, w1 \in BOOLEAN, w2 \in BOOLEAN :
          LET l == load_config(call.file, call.defaults, w1)
              config == [l.config EXCEPT !.default_model = name]
          IN  IF ~IsConfigured(name, l.config)
              THEN call' = [call EXCEPT
                              !.defaults = l.defaults, !.file = l.file,
                              !.op = "set_default_model", !.name = name,
                              !.result = FALSE]
              ELSE call' = [call EXCEPT
                              !.defaults = IF l.is_defaults
                                           THEN [l.defaults EXCEPT
                                                    !.default_model = name]
                                           ELSE l.defaults,
                              !.file = save_config(config, l.file, w2),
                              !.op = "set_default_model", !.name = name,
                              !.result = w2]
    /\ UNCHANGED <<pc>>
    /\ UNCHANGED loop_vars

\* the process ends and a new one imports the module: DEFAULT_CONFIG is as
\* defined again, the file stays
NewProcess ==
    /\ call.fn = "config"
    /\ call.op # "new process"
    /\ call' = [call EXCEPT !.defaults = DEFAULT_CONFIG,
                            !.op = "new process", !.name = "", !.result = TRUE]
    /\ UNCHANGED <<pc>>
    /\ UNCHANGED loop_vars

ConfigNext == AddModel \/ RemoveModel \/ SetDefaultModel \/ NewProcess

ConfigSpec == ConfigInit /\ [][ConfigNext]_vars

----------------------------------------------------------------------------
(* get_last_command_error: re-running the recorded command *)

MaxProcs == 3

MaxRuns == 3

\* the variable is not in os.environ
Unset == "<unset>"

\* os.environ of a process, reduced to the three variables the function reads
Environments ==
    [CAO_LAST_COMMAND : {Unset, "", "ls", "make"},
     CAO_RETURN_CODE : {Unset, "1", "abc"},
     CAO_REPRODUCING_ERROR : {Unset, "", "1"}]

\* truth value of os.environ.get(name)
IsTruthy(value) == value \notin {Unset, ""}

\* int(env_returncode) raises ValueError
IsNotInt(value) == value = "abc"

\* variant: the recursion guard is not tested
IsReproducingNever(env) == FALSE

\* `if os.environ.get("CAO_REPRODUCING_ERROR")`
IsReproducing(env) == IsTruthy(env.CAO_REPRODUCING_ERROR)

\* how the re-run command ends
Runs == {"fails", "times out", "cannot start"}

NoLastCommand == [command |-> "unknown", error |-> "no last command", returncode |-> -1]

\* one call in a process with environment env: whether the command was
\* executed, the environment afterwards and the dictionary returned
get_last_command_error(env, run) ==
    IF ~IsTruthy(env.CAO_LAST_COMMAND) THEN
        [executed |-> FALSE, env |-> env, out |-> NoLastCommand]
    ELSE IF IsTruthy(env.CAO_RETURN_CODE) /\ IsNotInt(env.CAO_RETURN_CODE) THEN
        [executed |-> FALSE, env |-> env, out |-> NoLastCommand]
    ELSE IF IsReproducing(env) THEN
        [executed |-> FALSE, env |-> env,
         out |-> [command |-> env.CAO_LAST_COMMAND, error |-> "recursion guard",
                  returncode |-> -1]]
    ELSE
        [executed |-> TRUE,
         env |-> [env EXCEPT !.CAO_REPRODUCING_ERROR = "1"],
         out |-> [command |-> env.CAO_LAST_COMMAND,
                  error |-> run,
                  returncode |-> IF run = "fails" THEN 1 ELSE -1]]

\* call.envs: the environments of the processes, the first started by the
\* user's shell, each later one a cao started by the command that an earlier
\* one re-runs; call.runs counts the executions of the recorded command
GuardInit ==
    /\ pc = "call_0"
    /\ \E env \in Environments :
          /\ call = [fn |-> "get_last_command_error", envs |-> <<env>>,
                     runs |-> 0, proc |-> 0, was_reproducing |-> FALSE,
                     last |-> [executed |-> FALSE, env |-> env,
                               out |-> NoLastCommand]]
    /\ LoopNotStarted

\* a process calls get_last_command_error
GuardCall ==
    /\ call.fn = "get_last_command_error"
    /\ call.runs < MaxRuns
    /\ \E p \in DOMAIN call.envs, run \in Runs :
          LET r == get_last_command_error(call.envs[p], run)
          IN  call' = [call EXCEPT
                          !.envs[p] = r.env,
                          !.runs = IF r.executed THEN @ + 1 ELSE @,
                          !.proc = p,
                          !.was_reproducing =
                              IsTruthy(call.envs[p].CAO_REPRODUCING_ERROR),
                          !.last = r]
    /\ pc' = "call_1"
    /\ UNCHANGED loop_vars

\* the command being re-run starts cao again: the child inherits the
\* environment of the process that runs the command
GuardSpawn ==
    /\ call.fn = "get_last_command_error"
    /\ pc = "call_1"
    /\ call.last.executed
    /\ Len(call.envs) < MaxProcs
    /\ call' = [call EXCEPT !.envs = Append(@, call.envs[call.proc])]
    /\ UNCHANGED <<pc>>
    /\ UNCHANGED loop_vars

GuardNext == GuardCall \/ GuardSpawn

GuardSpec == GuardInit /\ [][GuardNext]_vars

----------------------------------------------------------------------------
(* Properties *)

Last(s) == s[Len(s)]

\* the content of the user message the current turn dispatched
TriggerContent ==
    IF path = "persona" THEN PersonaContent(user_input) ELSE user_input

IsAssistantAppend(old, new) ==
    /\ Len(new) = Len(old) + 1
    /\ SubSeq(new, 1, Len(old)) = old
    /\ Last(new).role = "assistant"

\* C1: the assistant message of a dispatch is appended immediately after the
\* user message that triggered it: while the turn is in flight the last
\* message is that user message, the only change the context then undergoes
\* is the append of one assistant message, and no line is read in between.
C1_TurnOrdering ==
    /\ [](pc \in {"DISPATCHING", "RENDERING"} =>
            Last(conversation_context) = Msg("user", TriggerContent))
    /\ [](pc = "RENDERED" =>
            /\ conversation_context[Len(conversation_context) - 1]
                  = Msg("user", TriggerContent)
            /\ Last(conversation_context).role = "assistant")
    /\ [][Last(conversation_context).role = "user"
            /\ conversation_context' # conversation_context
          => /\ IsAssistantAppend(conversation_context, conversation_context')
             /\ user_input' = user_input
             /\ turns' = turns]_vars

C1_Witness ==
    /\ pc = "RENDERED"
    /\ path = "persona"
    /\ turns = 2
    /\ conversation_context[Len(conversation_context) - 1]
          = Msg("user", <<Word(1)>>)

\* C2: at most one api_call_thread is outstanding, and a thread is started
\* only when none is outstanding and the previous container (if any) has
\* done = TRUE.
C2_OneWorker ==
    /\ [](Len(workers) <= 1)
    /\ [][Len(workers') > Len(workers)
          => /\ workers = <<>>
             /\ pc = "AWAITING_INPUT"
             /\ (turns = 0 \/ response_result.done)]_vars

C2_Witness ==
    /\ turns = 2
    /\ Len(workers) = 1
    /\ workers[1] = "calling"

\* C3: while a thread is outstanding nobody mutates the context or the
\* persona; a thread step changes only the result container; the foreground
\* is at a mutating position only when no thread is outstanding.
C3_ContextConfined ==
    /\ [][workers # <<>>
          => /\ conversation_context' = conversation_context
             /\ current_role' = current_role]_vars
    /\ [][(workers' # workers /\ Len(workers') <= Len(workers))
          => UNCHANGED <<pc, conversation_context, current_role, user_input,
                         path, notice, turns>>]_vars
    /\ [](pc \in {"AWAITING_INPUT", "RENDERING", "RENDERED"} => workers = <<>>)

C3_Witness ==
    /\ workers = <<"finally">>
    /\ turns = 2
    /\ Len(conversation_context) = 5

\* C4: every dispatch starts with a fresh container; done = TRUE implies
\* ai_response or error was written; the foreground reads the container only
\* with done = TRUE; once done, the container changes only by being replaced
\* with a fresh one at the next dispatch.
C4_ResultWrittenBeforeDone ==
    /\ [](response_result.done =>
            (response_result.ai_response # None \/ response_result.error # None))
    /\ [](pc \in {"RENDERING", "RENDERED"} => response_result.done)
    /\ [][turns' = turns + 1 => response_result' = FreshResult]_vars
    /\ [][(response_result.done /\ response_result' # response_result)
          => (response_result' = FreshResult /\ turns' = turns + 1)]_vars

C4_Witness ==
    /\ pc = "RENDERING"
    /\ response_result.done
    /\ response_result.error = <<"'model'">>
    /\ response_result.ai_response = None

\* C5: every dispatch completes: a started thread sets done, the loop leaves
\* DISPATCHING and is back awaiting input (unless an interrupt terminated the
\* session), having appended exactly one assistant message on the way.
C5_DispatchCompletes ==
    /\ (workers # <<>>) ~> (response_result.done \/ pc = "TERMINATED")
    /\ (pc = "DISPATCHING") ~> (pc = "AWAITING_INPUT" \/ pc = "TERMINATED")
    /\ [][(pc = "DISPATCHING" /\ pc' # pc /\ pc' # "TERMINATED")
          => (pc' = "RENDERING" /\ conversation_context' = conversation_context)]_vars
    /\ [][(pc = "RENDERING" /\ pc' # pc /\ pc' # "TERMINATED")
          => (pc' = "RENDERED"
              /\ IsAssistantAppend(conversation_context, conversation_context'))]_vars
    /\ [][(pc = "RENDERED" /\ pc' # pc /\ pc' # "TERMINATED")
          => (pc' = "AWAITING_INPUT"
              /\ Len(conversation_context') <= Len(conversation_context))]_vars

C5_Witness ==
    /\ pc = "AWAITING_INPUT"
    /\ turns = 1
    /\ response_result.done
    /\ response_result.error = <<"'model'">>
    /\ Last(conversation_context)
          = Msg("assistant", ApologyPrefix \o <<"'model'">>)

\* C6: the context holds exactly one system message in every state.
C6_OneSystemMessage ==
    Cardinality(SystemIndexes(conversation_context)) = 1

C6_Witness ==
    /\ pc = "AWAITING_INPUT"
    /\ Len(conversation_context) = 1 + RETAIN
    /\ current_role = "frontend"
    /\ notice = "switch"

\* C7: a persona switch (alone or with an inline message) replaces the system
\* message where it stands by the new persona's prompt and leaves every other
\* message, the order and the length of the prior context unchanged.
C7_SwitchInPlace ==
    [][(pc = "AWAITING_INPUT" /\ pc' # "TERMINATED"
          /\ Route(user_input') \in {"switch", "persona_message"})
       => /\ Len(conversation_context') =
                Len(conversation_context)
                  + (IF Route(user_input') = "switch" THEN 0 ELSE 1)
          /\ \A i \in DOMAIN conversation_context :
                conversation_context'[i] =
                   IF conversation_context[i].role = "system"
                   THEN Msg("system", roles[Cmd(user_input')].system_prompt)
                   ELSE conversation_context[i]]_vars

C7_Witness ==
    /\ notice = "switch"
    /\ current_role = "backend"
    /\ Len(conversation_context) = 6
    /\ conversation_context[1] = Msg("system", roles["backend"].system_prompt)
    /\ conversation_context[3] = Msg("user", <<" ", Word(0), " ">>)

\* C8: at the compaction step a context of more than 20 messages becomes its
\* system messages followed by its last 10 messages, in order and with no
\* message taken twice; a context of 20 or fewer is unchanged.
C8_CompactionResult ==
    [][(pc = "RENDERED" /\ pc' = "AWAITING_INPUT" /\ path = "plain")
       => LET c  == conversation_context
              c2 == conversation_context'
              ns == Cardinality(SystemIndexes(c))
          IN  IF Len(c) > 20
              THEN /\ Len(c2) = ns + 10
                   /\ \A i \in 1..ns :
                         /\ c2[i].role = "system"
                         /\ \E k \in SystemIndexes(c) :
                               /\ c2[i] = c[k]
                               /\ Cardinality({j \in SystemIndexes(c) : j <= k}) = i
                   /\ \A j \in 1..10 : c2[ns + j] = c[Len(c) - 10 + j]
                   /\ \A k \in SystemIndexes(c) : k <= Len(c) - 10
              ELSE c2 = c]_vars

C8_Witness ==
    /\ pc = "AWAITING_INPUT"
    /\ path = "plain"
    /\ turns = 10
    /\ Len(conversation_context) = 11
    /\ conversation_context[2] = Msg("user", <<Word(5)>>)

\* C9: compaction follows every assistant append, so the context holds at
\* most 20 messages whenever the loop is awaiting input.
C9_BoundedAtPrompt ==
    pc = "AWAITING_INPUT" => Len(conversation_context) <= 20

\* C10: from a fresh session, through turns that are all plain text, the
\* context never holds more than 22 messages, and after the 25th turn it is
\* the system message followed by the 10 most recent messages (11 in all).
C10_TwentyFiveTurns ==
    /\ only_plain => Len(conversation_context) <= 22
    /\ (only_plain /\ turns = 25 /\ pc = "AWAITING_INPUT")
         => /\ Len(conversation_context) = 11
            /\ conversation_context[1] = Msg("system", roles["default"].system_prompt)
            /\ \A k \in 1..5 :
                  /\ conversation_context[2 * k] = Msg("user", <<Word(19 + k)>>)
                  /\ conversation_context[2 * k + 1].role = "assistant"

C10_Witness ==
    /\ only_plain
    /\ turns = 25
    /\ pc = "AWAITING_INPUT"

\* the step that ends a plain-text turn, where the trimming is applied, on a
\* context with exactly one system message
IsCompactionStep ==
    /\ pc = "RENDERED"
    /\ pc' = "AWAITING_INPUT"
    /\ path = "plain"
    /\ Cardinality(SystemIndexes(conversation_context)) = 1

\* C11 as stated: with exactly one system message, the context holds at most
\* 1 + 10 = 11 messages after the compaction step.
C11_AtMostEleven ==
    [][IsCompactionStep => Len(conversation_context') <= 1 + RETAIN]_vars

\* C11: with exactly one system message, a context of more than 20 messages
\* holds exactly 11 messages after the compaction step and a context of 20 or
\* fewer keeps its length, so the length after the step is at most 20.
C11_LengthAfterCompaction ==
    [][IsCompactionStep =>
          /\ Len(conversation_context) > CEILING
                => Len(conversation_context') = 1 + RETAIN
          /\ Len(conversation_context) <= CEILING
                => Len(conversation_context') = Len(conversation_context)
          /\ Len(conversation_context') <= CEILING]_vars

C11_Witness ==
    /\ pc = "AWAITING_INPUT"
    /\ path = "plain"
    /\ only_plain
    /\ turns = 10
    /\ Len(conversation_context) = 1 + RETAIN

\* C12: applying the trimming to a context that was just trimmed leaves it as
\* it is.
C12_CompactIdempotent ==
    [][pc = "compact_1" => conversation_context' = conversation_context]_vars

C12_Witness ==
    /\ pc = "compact_2"
    /\ Len(conversation_context) = 1 + RETAIN
    /\ conversation_context[2] = Msg("user", <<ToString(13)>>)

\* C13: when call_ai_api raises inside the thread, the foreground appends one
\* assistant message made of the apology prefix and the exception text right
\* after the user message of the turn, the session ends during the turn only
\* by an interrupt, and the loop comes back to the prompt.
C13_RaiseIsNotFatal ==
    /\ [][(pc = "RENDERING" /\ pc' = "RENDERED" /\ response_result.error # None)
            => /\ IsAssistantAppend(conversation_context, conversation_context')
               /\ Last(conversation_context').content
                     = ApologyPrefix \o response_result.error
               /\ Last(conversation_context) = Msg("user", TriggerContent)]_vars
    /\ [][(pc = "RENDERED" /\ pc' = "AWAITING_INPUT" /\ response_result.error # None)
            => conversation_context' = conversation_context]_vars
    /\ [][(pc \in {"DISPATCHING", "RENDERING", "RENDERED"} /\ pc' = "TERMINATED")
            => interrupt' # "none"]_vars
    /\ (pc = "DISPATCHING" /\ response_result.error # None)
          ~> (pc = "AWAITING_INPUT" \/ interrupt # "none")

C13_Witness ==
    /\ pc = "AWAITING_INPUT"
    /\ remote = "config_error"
    /\ response_result.error = <<"'model'">>
    /\ Last(conversation_context)
          = Msg("assistant", ApologyPrefix \o <<"'model'">>)
    /\ interrupt = "none"

\* C14 as stated: after a failed remote completion (another status than 200,
\* an exception in requests.post, a payload that does not parse) the error
\* field of the result holds the message and ai_response stays None.
C14_FailureSetsError ==
    remote \in {"http_error", "network_error", "malformed"}
        => /\ response_result.error # None
           /\ response_result.ai_response = None

\* lines of the form `/<key> <text>` the user can type in the turn after t
\* dispatches, with the key and the text they carry
PersonaMessageCases(t) ==
    { [line |-> <<"/", "frontend", " ", Word(t)>>,
       key  |-> "frontend",
       text |-> <<Word(t)>>],
      [line |-> <<" ", "/", "BACKEND", " ", " ", Word(t), " ", "more", " ">>,
       key  |-> "backend",
       text |-> <<Word(t), " ", "more">>] }

InTurn == pc \in {"DISPATCHING", "RENDERING", "RENDERED"}

\* C15: reading `/<key> <text>` makes <key> the persona, puts <key>'s prompt in
\* the system message and appends one user message with content <text> in the
\* step that starts the one thread of the turn; the turn then appends exactly
\* one assistant message and renders no switch notice.
C15_PersonaMessage ==
    /\ [][\A c \in PersonaMessageCases(turns) :
            (pc = "AWAITING_INPUT" /\ user_input' = c.line /\ interrupt' = "none")
               => /\ current_role' = c.key
                  /\ Len(conversation_context') = Len(conversation_context) + 1
                  /\ conversation_context'[1]
                        = Msg("system", roles[c.key].system_prompt)
                  /\ \A i \in 2..Len(conversation_context) :
                        conversation_context'[i] = conversation_context[i]
                  /\ Last(conversation_context') = Msg("user", c.text)
                  /\ workers = <<>>
                  /\ workers' = <<"calling">>
                  /\ turns' = turns + 1
                  /\ notice' # "switch"
                  /\ path' = "persona"
                  /\ pc' = "DISPATCHING"]_vars
    /\ [][(path = "persona" /\ InTurn)
            => /\ Len(workers') <= Len(workers)
               /\ turns' = turns
               /\ notice' # "switch"
               /\ IF pc = "RENDERING" /\ pc' = "RENDERED"
                  THEN IsAssistantAppend(conversation_context, conversation_context')
                  ELSE conversation_context' = conversation_context]_vars

C15_Witness ==
    /\ pc = "AWAITING_INPUT"
    /\ path = "persona"
    /\ user_input = <<" ", "/", "BACKEND", " ", " ", "1", " ", "more", " ">>
    /\ current_role = "backend"
    /\ Len(conversation_context) = 4
    /\ conversation_context[1] = Msg("system", roles["backend"].system_prompt)
    /\ conversation_context[3] = Msg("user", <<"1", " ", "more">>)
    /\ conversation_context[4].role = "assistant"
    /\ notice = "reply"
    /\ interrupt = "none"

\* lines that hold only `/<key>`, with the key they name
PersonaSwitchCases ==
    { [line |-> <<"/", "frontend">>,           key |-> "frontend"],
      [line |-> <<" ", "/", "BACKEND", " ">>,  key |-> "backend"] }

\* C16: reading `/<key>` alone puts <key>'s prompt in the system message and
\* renders the switch notice; no message is appended, no thread is started
\* and the loop stays at the prompt.
C16_SwitchOnly ==
    [][\A c \in PersonaSwitchCases :
          (pc = "AWAITING_INPUT" /\ user_input' = c.line /\ interrupt' = "none")
             => /\ current_role' = c.key
                /\ Len(conversation_context') = Len(conversation_context)
                /\ conversation_context'[1]
                      = Msg("system", roles[c.key].system_prompt)
                /\ \A i \in 2..Len(conversation_context) :
                      conversation_context'[i] = conversation_context[i]
                /\ workers = <<>>
                /\ workers' = <<>>
                /\ turns' = turns
                /\ response_result' = response_result
                /\ notice' = "switch"
                /\ pc' = "AWAITING_INPUT"]_vars

C16_Witness ==
    /\ pc = "AWAITING_INPUT"
    /\ user_input = <<" ", "/", "BACKEND", " ">>
    /\ current_role = "backend"
    /\ turns = 1
    /\ Len(conversation_context) = 4
    /\ conversation_context[1] = Msg("system", roles["backend"].system_prompt)
    /\ conversation_context[2] = Msg("assistant", roles["default"].greeting)
    /\ conversation_context[3] = Msg("user", <<"1">>)
    /\ notice = "switch"
    /\ workers = <<>>

\* lines that start with "/" and whose command is neither an exit word nor a
\* role key
UnknownCommandLines == { <<"/", "bogus">>, <<"/", " ", "frontend">> }

\* C17: reading a line that starts with "/" and names neither an exit word nor
\* a role leaves the context and the persona as they are, starts no thread,
\* prints the unknown-command notice and stays at the prompt.
C17_UnknownCommand ==
    [][(pc = "AWAITING_INPUT" /\ user_input' \in UnknownCommandLines
            /\ interrupt' = "none")
          => /\ conversation_context' = conversation_context
             /\ current_role' = current_role
             /\ workers = <<>>
             /\ workers' = <<>>
             /\ turns' = turns
             /\ response_result' = response_result
             /\ notice' = "unknown"
             /\ pc' = "AWAITING_INPUT"]_vars

C17_Witness ==
    /\ pc = "AWAITING_INPUT"
    /\ user_input = <<"/", " ", "frontend">>
    /\ notice = "unknown"
    /\ current_role = "default"
    /\ turns = 1
    /\ Len(conversation_context) = 4
    /\ workers = <<>>

\* lines that are an exit word once stripped and lowercased
ExitLines == { <<"exit">>, <<"/", "exit">>, <<" ", "/", "QUIT", " ">>, <<"quit">> }

\* C18: reading an exit line ends the session with the context as it was and
\* no thread started, and without an interrupt the session ends only at the
\* prompt, on reading an exit line.
C18_ExitLines ==
    /\ [][(pc = "AWAITING_INPUT" /\ user_input' \in ExitLines /\ interrupt' = "none")
            => /\ pc' = "TERMINATED"
               /\ conversation_context' = conversation_context
               /\ workers = <<>>
               /\ workers' = <<>>
               /\ turns' = turns
               /\ response_result' = response_result]_vars
    /\ [][(pc # "TERMINATED" /\ pc' = "TERMINATED" /\ interrupt' = "none")
            => /\ pc = "AWAITING_INPUT"
               /\ user_input' \in ExitLines]_vars

C18_Witness ==
    /\ pc = "TERMINATED"
    /\ interrupt = "none"
    /\ user_input = <<" ", "/", "QUIT", " ">>
    /\ notice = "exit"
    /\ turns = 1
    /\ Len(conversation_context) = 4
    /\ workers = <<>>

\* the empty line and a line of blanks
BlankLines == { <<>>, <<" ", "\t">> }

\* C19: reading an empty or whitespace-only line changes neither the context
\* nor the persona nor the position of the loop; nothing is appended and no
\* thread is started.
C19_BlankLine ==
    [][(pc = "AWAITING_INPUT" /\ user_input' \in BlankLines /\ interrupt' = "none")
          => /\ conversation_context' = conversation_context
             /\ current_role' = current_role
             /\ pc' = "AWAITING_INPUT"
             /\ workers = <<>>
             /\ workers' = <<>>
             /\ turns' = turns
             /\ response_result' = response_result
             /\ notice' = notice]_vars

C19_Witness ==
    /\ pc = "AWAITING_INPUT"
    /\ user_input = <<" ", "\t">>
    /\ turns = 1
    /\ Len(conversation_context) = 4
    /\ notice = "reply"
    /\ workers = <<>>

\* C20: Ctrl-C or Ctrl-D at the prompt ends the session in that step with the
\* exit notice printed, the context as it was and no thread started.
C20_InterruptAtPrompt ==
    [][(pc = "AWAITING_INPUT" /\ interrupt = "none" /\ interrupt' # "none")
          => /\ interrupt' \in {"ctrl_c", "ctrl_d"}
             /\ pc' = "TERMINATED"
             /\ notice' = "exit"
             /\ conversation_context' = conversation_context
             /\ current_role' = current_role
             /\ workers = <<>>
             /\ workers' = <<>>
             /\ turns' = turns
             /\ response_result' = response_result]_vars

C20_Witness ==
    /\ pc = "TERMINATED"
    /\ interrupt = "ctrl_d"
    /\ notice = "exit"
    /\ turns = 1
    /\ Len(conversation_context) = 4
    /\ Last(conversation_context).role = "assistant"
    /\ workers = <<>>

\* C21: while a thread is outstanding an interrupt can be taken at once, and
\* taking it ends the session in that step without the result being written
\* or read; the thread is abandoned and the context stays as the interrupted
\* turn left it, its last message being the user message.
C21_InterruptWhileDispatching ==
    /\ [](workers # <<>> /\ pc # "TERMINATED" => ENABLED Interrupt)
    /\ [][(workers # <<>> /\ pc # "TERMINATED" /\ interrupt' # "none")
            => /\ pc' = "TERMINATED"
               /\ workers' = workers
               /\ response_result' = response_result
               /\ conversation_context' = conversation_context
               /\ Last(conversation_context') = Msg("user", TriggerContent)]_vars
    /\ [][pc = "TERMINATED"
            => /\ pc' = "TERMINATED"
               /\ conversation_context' = conversation_context
               /\ response_result' = response_result]_vars

C21_Witness ==
    /\ pc = "TERMINATED"
    /\ interrupt = "ctrl_c"
    /\ workers = <<"calling">>
    /\ response_result = FreshResult
    /\ turns = 2
    /\ Len(conversation_context) = 5
    /\ Last(conversation_context) = Msg("user", <<"2">>)

\* the step in which the thread makes its call
IsCallStep ==
    /\ workers # <<>>
    /\ workers[1] = "calling"
    /\ workers' # <<>>
    /\ workers'[1] = "finally"

\* C22: the messages of the request body are the context as the dispatch left
\* it: the context does not change between the dispatch and the call, and the
\* call sends it message for message, the system message first and the user
\* message of the turn last.
C22_PayloadIsContext ==
    /\ [][workers # <<>> => conversation_context' = conversation_context]_vars
    /\ [][IsCallStep
            => /\ payload_messages' = conversation_context
               /\ IsSystem(payload_messages'[1])
               /\ payload_messages'[1].content = roles[current_role].system_prompt
               /\ Cardinality(SystemIndexes(payload_messages')) = 1
               /\ Last(payload_messages') = Msg("user", TriggerContent)]_vars

C22_Witness ==
    /\ pc = "DISPATCHING"
    /\ workers = <<"finally">>
    /\ turns = 2
    /\ payload_messages = conversation_context
    /\ Len(payload_messages) = 5
    /\ payload_messages[1] = Msg("system", roles["backend"].system_prompt)
    /\ payload_messages[3] = Msg("user", <<"1">>)
    /\ payload_messages[5] = Msg("user", <<"2", " ", "more">>)

Blank(s) == \A i \in DOMAIN s : IsWS(s[i])

\* r is s without the whitespace at its two ends
IsTrimOf(r, s) ==
    /\ r = <<>> \/ (~IsWS(r[1]) /\ ~IsWS(r[Len(r)]))
    /\ \E i \in 1..(Len(s) + 1), j \in 0..Len(s) :
          /\ r = SubSeq(s, i, j)
          /\ Blank(SubSeq(s, 1, i - 1))
          /\ Blank(SubSeq(s, j + 1, Len(s)))

\* the content a 200 response carries on the path that parses it, if any
CompletionOf(c) ==
    IF c.api = "ollama" /\ c.shape = "neither" THEN OllamaDefault ELSE c.content

IsCompletion(c) == c.api = "ollama" \/ c.shape = "choices"

\* C23: on each of the three parsing paths the returned text is the content
\* of the response without a leading <think>...</think> block (up to the
\* first closing tag) and the whitespace after it, trimmed at both ends, and
\* is the trimmed content when no such block leads it.
C23_ThinkFiltered ==
    (pc = "call_1" /\ call.fn = "parse_completion" /\ IsCompletion(call))
        => LET c == CompletionOf(call)
           IN  IF c # <<>> /\ c[1] = "<think>"
                    /\ \E k \in 2..Len(c) : c[k] = "</think>"
               THEN \E k \in 2..Len(c) :
                       /\ c[k] = "</think>"
                       /\ \A j \in 2..(k - 1) : c[j] # "</think>"
                       /\ IsTrimOf(call.out, SubSeq(c, k + 1, Len(c)))
               ELSE IsTrimOf(call.out, c)

C23_Witness ==
    /\ pc = "call_1"
    /\ call.fn = "parse_completion"
    /\ call.api = "ollama"
    /\ call.shape = "choices"
    /\ call.content = <<"<think>", "</think>", " ", "ok">>
    /\ call.out = <<"ok">>

IsWrapDone == pc \in {"call_1", "call_2"} /\ call.fn = "process_text_to_lines"

\* the units a piece of the text is wrapped by: its characters when it holds
\* a wide character, its space-separated words otherwise
UnitsOf(segment) ==
    IF IsCjkText(segment) THEN [i \in 1..Len(segment) |-> <<segment[i]>>]
    ELSE split(segment, " ")

RECURSIVE UnitsOfAll(_)
UnitsOfAll(segments) ==
    IF segments = <<>> THEN <<>>
    ELSE UnitsOf(Head(segments)) \o UnitsOfAll(Tail(segments))

IsOversize(s, w) == get_string_display_width(s) > w

OversizeUnits(text, w) ==
    SelectSeq(UnitsOfAll(split(text, "\n")), LAMBDA u : IsOversize(u, w))

\* a line made of one character, or of one word of a text without wide
\* characters
IsSingleUnit(line) ==
    \/ Len(line) = 1
    \/ /\ line # <<>>
       /\ \A i \in DOMAIN line : line[i] # " " /\ ~IsWide(line[i])

\* C24: every line the wrapper produces is at most content_width wide, unless
\* it is a single character or a single word that is wider on its own.
C24_WidthBound ==
    IsWrapDone
        => \A i \in DOMAIN call.lines :
              \/ get_string_display_width(call.lines[i]) <= call.content_width
              \/ IsSingleUnit(call.lines[i])

C24_Witness ==
    /\ pc = "call_1"
    /\ call.fn = "process_text_to_lines"
    /\ call.text = <<"a", "Z", "a", "Z", "b">>
    /\ call.content_width = 3
    /\ call.lines = << <<"a", "Z">>, <<"a", "Z">>, <<"b">> >>

RECURSIVE Concat(_)
Concat(lines) ==
    IF lines = <<>> THEN <<>> ELSE Head(lines) \o Concat(Tail(lines))

\* C25 as stated: a piece wrapped by characters is the concatenation of its
\* lines, a piece wrapped by words is its lines joined with single spaces,
\* and a non-empty text gives at least one line.
C25_Lossless ==
    IsWrapDone
        => /\ \A k \in DOMAIN split(call.text, "\n") :
                LET segment == split(call.text, "\n")[k]
                    lines == LinesOf(segment, call.content_width)
                IN  IF IsCjkText(segment) THEN Concat(lines) = segment
                    ELSE join(lines, " ") = segment
           /\ call.text # <<>> => call.lines # <<>>

NoOversizeUnit == OversizeUnits(call.text, call.content_width) = <<>>

\* C26 as stated: for a text without a unit wider than content_width, joining
\* the lines with newlines and wrapping again gives the same lines.
C26_WrapIdempotent ==
    (pc = "call_2" /\ call.fn = "process_text_to_lines" /\ NoOversizeUnit)
        => call.again = call.lines

\* C27: the lines wider than content_width are exactly the units of the text
\* that are wider than content_width, each whole and alone on its line, in
\* the order of the text.
C27_OversizeUnitAlone ==
    IsWrapDone
        => SelectSeq(call.lines, LAMBDA l : IsOversize(l, call.content_width))
              = OversizeUnits(call.text, call.content_width)

C27_Witness ==
    /\ pc = "call_1"
    /\ call.fn = "process_text_to_lines"
    /\ call.text = <<"a", " ", "b", "a", "b">>
    /\ call.content_width = 2
    /\ call.lines = << <<"a">>, <<"b", "a", "b">> >>

\* C28 as stated: in both modes of the renderer the text is wrapped to
\* min(terminal_width - 4, 100), so no line of more than one unit is wider
\* than 100 columns or than terminal_width - 4 (an empty line aside).
C28_ContentWidth ==
    (pc = "call_1" /\ call.fn = "print_with_borders")
        => /\ call.content_width = Min(call.terminal_width - 4, 100)
           /\ \A i \in DOMAIN call.lines :
                 \/ call.lines[i] = <<>>
                 \/ IsSingleUnit(call.lines[i])
                 \/ /\ get_string_display_width(call.lines[i]) <= 100
                    /\ get_string_display_width(call.lines[i])
                          <= call.terminal_width - 4

\* C29 as stated: get_terminal_size returns a pair of positive integers, and
\* the pair (80, 24) when the query fails.
C29_PositivePair ==
    (pc = "call_1" /\ call.fn = "get_terminal_size")
        => /\ Len(call.out) = 2
           /\ call.out[1] > 0
           /\ call.out[2] > 0
           /\ call.query.raises => call.out = <<80, 24>>

\* the provider of the call is the one its api_base names, and a key for it
\* is set in the environment or in model_config
KeyAvailable ==
    LET matched == InferProvider(call.model_config.api_base)
    IN  /\ matched # "ollama"
        /\ call.model_config.provider \in {"", matched}
        /\ matched \in call.environ \/ call.model_config.has_api_key

\* C30 as stated: with a key available for the provider of api_base, the call
\* posts exactly one request, whose Authorization header carries that key,
\* and returns a string; it never raises.
C30_OnePostReturnsString ==
    (pc = "call_1" /\ call.fn = "call_ai_api" /\ KeyAvailable)
        => LET matched == InferProvider(call.model_config.api_base)
           IN  /\ ~call.out.raises
               /\ call.out.posts = 1
               /\ call.out.authorization
                     = <<"Bearer ">> \o (IF matched \in call.environ
                                         THEN EnvKey(matched) ELSE ConfigKey)

\* a command line of the kind the claim describes: options before the
\* positional words, -m with a supported model, -d, --last
IsPlainCommandLine(argv) ==
    \E k \in 0..Len(argv) :
        /\ \A i \in (k + 1)..Len(argv) : ~IsOptionLike(argv[i])
        /\ \A i \in 1..k :
              \/ argv[i] \in {"-d", "--last"}
              \/ argv[i] = "-m" /\ i < k /\ argv[i + 1] \in SUPPORTED_MODELS
              \/ argv[i] \in SUPPORTED_MODELS /\ i > 1 /\ argv[i - 1] = "-m"

\* the positional words of a plain command line, in their order
PositionalWords(argv) ==
    LET firsts == {i \in 1..Len(argv) :
                      \A j \in i..Len(argv) :
                          /\ ~IsOptionLike(argv[j])
                          /\ (j = 1 \/ argv[j - 1] # "-m")}
    IN  IF firsts = {} THEN <<>>
        ELSE SubSeq(argv, CHOOSE i \in firsts : \A j \in firsts : i <= j,
                    Len(argv))

\* C31 as stated: parse_args returns the positional words as command, the
\* model deepseek unless -m selects another one, debug false unless -d is
\* given, and last true exactly when --last is given.
C31_ParseArgs ==
    (pc = "call_1" /\ call.fn = "parse_args" /\ IsPlainCommandLine(call.argv))
        => /\ ~call.out.exits
           /\ call.out.ns.command = PositionalWords(call.argv)
           /\ call.out.ns.model
                 = (IF \E i \in 1..Len(call.argv) : call.argv[i] = "-m"
                    THEN call.argv[CHOOSE i \in 2..Len(call.argv) :
                                      /\ call.argv[i - 1] = "-m"
                                      /\ \A j \in (i + 1)..Len(call.argv) :
                                            call.argv[j - 1] # "-m"]
                    ELSE "deepseek")
           /\ call.out.ns.debug = (\E i \in 1..Len(call.argv) : call.argv[i] = "-d")
           /\ "last" \in DOMAIN call.out.ns
           /\ call.out.ns.last = (\E i \in 1..Len(call.argv) : call.argv[i] = "--last")

\* C32: in every state of the session the first message of the context is the
\* system message, the active persona is a key of the persona registry, and
\* the content of the system message is the system prompt of that persona.
C32_SystemPromptOfActivePersona ==
    /\ conversation_context # <<>>
    /\ conversation_context[1].role = "system"
    /\ current_role \in DOMAIN roles
    /\ conversation_context[1].content = roles[current_role].system_prompt

\* a dispatch starts under a persona other than the initial one from a
\* context that was trimmed before
C32_Witness ==
    /\ pc = "DISPATCHING"
    /\ current_role # "default"
    /\ turns > CEILING \div 2
    /\ Len(conversation_context) <= RETAIN + 2
    /\ conversation_context[1].content = roles[current_role].system_prompt

\* every user message of ctx is followed by an assistant message, and that
\* one by no second assistant message
PairsIntact(ctx) ==
    \A i \in DOMAIN ctx :
        ctx[i].role = "user"
            => /\ i < Len(ctx)
               /\ ctx[i + 1].role = "assistant"
               /\ i + 2 <= Len(ctx) => ctx[i + 2].role # "assistant"

\* C33: whenever the loop awaits input every user message is immediately
\* followed by exactly one assistant message (so no two user messages are
\* adjacent), and after a compaction that cut the context the message right
\* after the system message is a user message.
C33_PairsKept ==
    /\ [](pc = "AWAITING_INPUT" => PairsIntact(conversation_context))
    /\ [][(IsCompactionStep /\ Len(conversation_context) > CEILING)
             => /\ conversation_context'[1].role = "system"
                /\ conversation_context'[2].role = "user"
                /\ PairsIntact(conversation_context')]_vars

\* the prompt after the second cut of a long conversation
C33_Witness ==
    /\ pc = "AWAITING_INPUT"
    /\ path = "plain"
    /\ turns > CEILING \div 2
    /\ Len(conversation_context) = 1 + RETAIN
    /\ conversation_context[2].role = "user"
    /\ conversation_context[2].content # <<Word(5)>>

\* C34: after any sequence of add_model, remove_model and set_default_model
\* calls, get_default_model() names a model of get_supported_models().
C34_DefaultIsSupported ==
    call.fn = "config"
        => get_default_model(call.file, call.defaults)
              \in get_supported_models(call.file, call.defaults)

\* remove_model has just refused the default model, which is not the default
\* of DEFAULT_CONFIG, after that one was removed
C34_Witness ==
    /\ call.fn = "config"
    /\ call.op = "remove_model"
    /\ ~call.result
    /\ call.name = get_default_model(call.file, call.defaults)
    /\ call.name # "deepseek"
    /\ "deepseek" \notin get_supported_models(call.file, call.defaults)

\* C35 as stated: a name whose remove_model returned True is absent from
\* get_supported_models() on every later load, in a new process too and for
\* the built-in models too, until add_model is called for it.
C35_RemovedStaysAbsent ==
    call.fn = "config"
        => \A name \in call.removed :
              name \notin get_supported_models(call.file, call.defaults)

IsLocalModel(model_config) ==
    ApiProvider(model_config) = "ollama" \/ model_config.api_base.local

\* no key in <PROVIDER>_API_KEY, in model_config and in the variable of the
\* compatible-mode provider
NoKeyFound(model_config, environ) ==
    /\ ApiProvider(model_config) \notin environ
    /\ ~model_config.has_api_key
    /\ CompatProvider(model_config.api_base) \notin environ

\* C37 as stated: for a provider other than ollama/localhost with no key in
\* any of the three places the call posts nothing and returns an error
\* string; for ollama/localhost one request is posted, without an
\* Authorization header.
C37_KeyLookup ==
    (pc = "call_1" /\ call.fn = "call_ai_api")
        => /\ (~IsLocalModel(call.model_config)
                 /\ NoKeyFound(call.model_config, call.environ))
                => /\ call.out.posts = 0
                   /\ ~call.out.raises
                   /\ call.out.text = <<"error: API key not set">>
           /\ IsLocalModel(call.model_config)
                => /\ call.out.posts = 1
                   /\ call.out.authorization = None

\* C38 as stated: filtering a filtered text changes nothing, and a text that
\* has passed the filter does not begin with a <think>...</think> block.
C38_FilterIdempotent ==
    (pc = "call_2" /\ call.fn = "parse_completion")
        => /\ call.again = call.out
           /\ ~(/\ call.out # <<>>
                /\ call.out[1] = "<think>"
                /\ \E k \in 2..Len(call.out) : call.out[k] = "</think>")

\* C39 as stated: for a non-empty segment (a text without a line break) every
\* output line is non-empty, and a segment that fits gives exactly one line.
C39_NoEmptyLine ==
    (/\ IsWrapDone
     /\ call.text # <<>>
     /\ \A i \in DOMAIN call.text : call.text[i] # "\n")
        => /\ \A i \in DOMAIN call.lines : call.lines[i] # <<>>
           /\ get_string_display_width(call.text) <= call.content_width
                => Len(call.lines) = 1

====
